---- MODULE Spec2Model ----
(***************************************************************************)
(* Posture Analysis Engine (backend/services/posture_analyzer.py and       *)
(* backend/services/advanced_analysis.py) as a state machine.              *)
(*                                                                         *)
(* Number representation (Python floats become fixed-point integers):      *)
(*   coordinates and visibilities : hundredths        (1.0  = 100)         *)
(*   scores, gains, error variance: ten-thousandths   (1.0  = SCALE)       *)
(*   angles                       : centi-degrees     (1 deg = DEG)        *)
(* NaN is a value of its own that every arithmetic operation propagates    *)
(* and every comparison answers False for, as IEEE-754 does.  A raised     *)
(* Python exception is the value ValueError.                               *)
(***************************************************************************)
EXTENDS Integers, Sequences, FiniteSets, TLC

VARIABLES
    filters,          \* AngleSmoother.filters: angle key -> KalmanFilter
    pose_history,     \* TemporalAnalyzer.pose_history   (deque, maxlen window_size)
    angle_history,    \* TemporalAnalyzer.angle_history  (deque, maxlen window_size)
    timestamps,       \* TemporalAnalyzer.timestamps     (deque, maxlen window_size)
    window_size,      \* TemporalAnalyzer.window_size
    last_visibilities,\* PostureAnalyzer._last_landmark_visibilities
    result,           \* outcome of the last call (a PostureAnalysis, or a raise)
    observed,         \* history: angle key -> the measurements fed to its filter
    calls,            \* history: number of calls that got past the visibility gate
    probe,            \* input and output of the last direct call of a pure function
    twin              \* a second PostureAnalyzer instance: its smoother, window, result

vars == <<filters, pose_history, angle_history, timestamps, window_size,
          last_visibilities, result, observed, calls, probe, twin>>

-----------------------------------------------------------------------------
(* Fixed-point scales *)
SCALE == 100 * 100
DEG == 10 * 10

(* Special float / control values *)
NaN == -1000000
ValueError == -3000000
None == -2000000

(* Bounds of the model *)
MaxCalls == 3
MaxTime == 1
MaxAdds == 5
MaxWindow == 3
MaxObs == 6
MaxFrames == 10

(* TemporalAnalyzer(window_size=10) *)
WindowSize == 10

-----------------------------------------------------------------------------
(* IEEE-754 arithmetic and comparisons with NaN *)
IsNaN(a) == a = NaN
FAdd(a, b) == IF IsNaN(a) \/ IsNaN(b) THEN NaN ELSE a + b
FSub(a, b) == IF IsNaN(a) \/ IsNaN(b) THEN NaN ELSE a - b
\* a * num / den with an exact rational factor num/den
FScale(a, num, den) == IF IsNaN(a) THEN NaN ELSE (a * num) \div den
FLt(a, b) == ~IsNaN(a) /\ ~IsNaN(b) /\ a < b
FLe(a, b) == ~IsNaN(a) /\ ~IsNaN(b) /\ a <= b
FGt(a, b) == FLt(b, a)
FGe(a, b) == FLe(b, a)
\* Python's builtin min(a, b): b if b < a else a
PyMin(a, b) == IF FLt(b, a) THEN b ELSE a
\* Python's builtin max(a, b): b if b > a else a
PyMax(a, b) == IF FGt(b, a) THEN b ELSE a
Abs(a) == IF a < 0 THEN -a ELSE a

\* Strict let: the value of e, computed once, handed to F
Bind(e, F(_)) == CHOOSE r \in {F(x) : x \in {e}} : TRUE

\* floor of the square root of n, sought in lo..hi by bisection
ISqrtR[n \in Nat, lo \in Nat, hi \in Nat] ==
    IF lo >= hi THEN lo
    ELSE IF ((lo + hi + 1) \div 2) * ((lo + hi + 1) \div 2) <= n
         THEN ISqrtR[n, (lo + hi + 1) \div 2, hi]
         ELSE ISqrtR[n, lo, (lo + hi + 1) \div 2 - 1]
ISqrt(n) == ISqrtR[n, 0, 46340]

\* the sum of the first k entries of v
SumTo[v \in Seq(Int), k \in Nat] == IF k = 0 THEN 0 ELSE v[k] + SumTo[v, k - 1]
SumSeq(s) == Bind(s, LAMBDA v : SumTo[v, Len(v)])

HasNaN(s) == \E i \in 1..Len(s) : IsNaN(s[i])

\* cos(d degrees) * 10000 for d = 0..90
CosTab == <<
  10000, 9998, 9994, 9986, 9976, 9962, 9945, 9925, 9903, 9877, 9848, 9816, 9781,
  9744, 9703, 9659, 9613, 9563, 9511, 9455, 9397, 9336, 9272, 9205, 9135, 9063,
  8988, 8910, 8829, 8746, 8660, 8572, 8480, 8387, 8290, 8192, 8090, 7986, 7880,
  7771, 7660, 7547, 7431, 7314, 7193, 7071, 6947, 6820, 6691, 6561, 6428, 6293,
  6157, 6018, 5878, 5736, 5592, 5446, 5299, 5150, 5000, 4848, 4695, 4540, 4384,
  4226, 4067, 3907, 3746, 3584, 3420, 3256, 3090, 2924, 2756, 2588, 2419, 2250,
  2079, 1908, 1736, 1564, 1392, 1219, 1045, 872, 698, 523, 349, 175, 0 >>

Cos(d) == IF d <= 90 THEN CosTab[d + 1] ELSE -CosTab[181 - d]

\* the largest d in lo..hi with Cos(d) >= c, by bisection (Cos(lo) >= c)
ArccosR[c \in Int, lo \in Nat, hi \in Nat] ==
    IF lo >= hi THEN lo
    ELSE IF Cos((lo + hi + 1) \div 2) >= c
         THEN ArccosR[c, (lo + hi + 1) \div 2, hi]
         ELSE ArccosR[c, lo, (lo + hi + 1) \div 2 - 1]

\* of the whole degrees d and d + 1 that enclose the angle, the nearer one
Nearest(c, d) ==
    IF d < 180 /\ Abs(Cos(d + 1) - c) < Abs(Cos(d) - c) THEN d + 1 ELSE d

\* np.degrees(np.arccos(c)), c in -SCALE..SCALE, to the nearest degree
ArccosDeg(c) == Bind(ArccosR[c, 0, 180], LAMBDA d : Nearest(c, d) * DEG)

-----------------------------------------------------------------------------
(* numpy vectors *)
P(points, idx) == points[idx + 1]
Sub3(a, b) == <<a[1] - b[1], a[2] - b[2], a[3] - b[3]>>
Sub2(a, b) == <<a[1] - b[1], a[2] - b[2]>>
Dot(a, b) == IF Len(a) = 2 THEN a[1] * b[1] + a[2] * b[2]
             ELSE a[1] * b[1] + a[2] * b[2] + a[3] * b[3]
NormSq(a) == Dot(a, a)

\* np.dot(v1, v2) / (np.linalg.norm(v1) * np.linalg.norm(v2)), in ten-thousandths;
\* 0.0 / 0.0 is nan.  The product of the norms is kept to one decimal.
CosAngle(v1, v2) ==
    Bind(<<Dot(v1, v2), NormSq(v1) * NormSq(v2)>>, LAMBDA dn :
      IF dn[2] = 0 THEN NaN
      ELSE IF dn[1] < 0
           THEN -((-dn[1] * 10 * SCALE) \div ISqrt(dn[2] * 100))
           ELSE (dn[1] * 10 * SCALE) \div ISqrt(dn[2] * 100))

\* np.clip(c, -1.0, 1.0)
Clip(c) == IF IsNaN(c) THEN NaN
           ELSE IF c < -SCALE THEN -SCALE ELSE IF c > SCALE THEN SCALE ELSE c

\* np.degrees(np.arccos(np.clip(cos_angle, -1.0, 1.0)))
AngleBetween(v1, v2) ==
    Bind(CosAngle(v1, v2), LAMBDA cos_angle :
      IF IsNaN(cos_angle) THEN NaN ELSE ArccosDeg(Clip(cos_angle)))

-----------------------------------------------------------------------------
(* Extractor outputs: 33 landmarks (x, y, z) and their 33 visibilities *)

\* A landmark array from the 17 joints that the engine reads; the face points
\* sit on the nose and the hand points on the wrists.
Body(j) == <<
    j.nose, j.nose, j.nose, j.nose, j.nose, j.nose, j.nose, j.nose, j.nose,
    j.nose, j.nose,
    j.l_shoulder, j.r_shoulder, j.l_elbow, j.r_elbow, j.l_wrist, j.r_wrist,
    j.l_wrist, j.r_wrist, j.l_wrist, j.r_wrist, j.l_wrist, j.r_wrist,
    j.l_hip, j.r_hip, j.l_knee, j.r_knee, j.l_ankle, j.r_ankle,
    j.l_heel, j.r_heel, j.l_foot, j.r_foot >>

StandJoints == [
    nose |-> <<50, 10, 0>>,
    l_shoulder |-> <<45, 25, 0>>, r_shoulder |-> <<55, 25, 0>>,
    l_elbow |-> <<45, 40, 0>>,    r_elbow |-> <<55, 40, 0>>,
    l_wrist |-> <<45, 55, 0>>,    r_wrist |-> <<55, 55, 0>>,
    l_hip |-> <<45, 50, 0>>,      r_hip |-> <<55, 50, 0>>,
    l_knee |-> <<45, 65, 0>>,     r_knee |-> <<55, 65, 0>>,
    l_ankle |-> <<45, 80, 0>>,    r_ankle |-> <<55, 80, 0>>,
    l_heel |-> <<45, 85, 5>>,     r_heel |-> <<55, 85, 5>>,
    l_foot |-> <<45, 85, -10>>,   r_foot |-> <<55, 85, -10>> ]

\* standing upright: knees and elbows straight
StandFrame == Body(StandJoints)

\* bottom of a squat: thighs level, shins upright, both knees at 90 degrees,
\* forearms level
SquatFrame == Body([StandJoints EXCEPT
    !.l_hip = <<45, 60, 0>>,    !.r_hip = <<55, 60, 0>>,
    !.l_knee = <<45, 60, -20>>, !.r_knee = <<55, 60, -20>>,
    !.l_ankle = <<45, 80, -20>>, !.r_ankle = <<55, 80, -20>>,
    !.l_heel = <<45, 85, -15>>, !.r_heel = <<55, 85, -15>>,
    !.l_foot = <<45, 85, -30>>, !.r_foot = <<55, 85, -30>>,
    !.l_wrist = <<45, 40, -15>>, !.r_wrist = <<55, 40, -15>> ])

\* a half squat: left knee near 97 degrees, knees drifting inwards
HalfSquatFrame == Body([StandJoints EXCEPT
    !.l_hip = <<45, 55, 0>>,    !.r_hip = <<55, 55, 0>>,
    !.l_knee = <<47, 65, -20>>, !.r_knee = <<53, 65, -20>>,
    !.l_ankle = <<45, 80, -15>>, !.r_ankle = <<55, 80, -15>> ])

\* the left knee landmark coincides with the left hip landmark
KneeOnHipFrame == Body([StandJoints EXCEPT !.l_knee = <<45, 50, 0>>])

\* leaning: the right shoulder and right hip sit lower and further back
LeanFrame == Body([StandJoints EXCEPT
    !.r_shoulder = <<55, 30, 5>>, !.r_hip = <<55, 55, 10>> ])

\* the nose, the shoulders and the hips one below the other on a vertical line
\* of the side view
StraightSpineFrame == Body([StandJoints EXCEPT
    !.r_shoulder = <<55, 30, 0>>, !.r_hip = <<55, 55, 0>> ])

\* standing with the ankles near the lower edge of the image: inside the
\* image, outside its central 10%-90% band
LowAnklesFrame == Body([StandJoints EXCEPT
    !.l_ankle = <<45, 95, 0>>,  !.r_ankle = <<55, 95, 0>>,
    !.l_heel = <<45, 98, 5>>,   !.r_heel = <<55, 98, 5>>,
    !.l_foot = <<45, 98, -10>>, !.r_foot = <<55, 98, -10>> ])

\* feet below the lower edge of the image
FeetCutFrame == Body([StandJoints EXCEPT
    !.l_heel = <<45, 105, 5>>, !.r_heel = <<55, 105, 5>>,
    !.l_foot = <<45, 105, -10>>, !.r_foot = <<55, 105, -10>> ])

\* only the head is inside the image
HeadOnlyFrame == Body([nose |-> <<50, 90, 0>>,
    l_shoulder |-> <<45, 105, 0>>, r_shoulder |-> <<55, 105, 0>>,
    l_elbow |-> <<45, 120, 0>>,    r_elbow |-> <<55, 120, 0>>,
    l_wrist |-> <<45, 135, 0>>,    r_wrist |-> <<55, 135, 0>>,
    l_hip |-> <<45, 130, 0>>,      r_hip |-> <<55, 130, 0>>,
    l_knee |-> <<45, 145, 0>>,     r_knee |-> <<55, 145, 0>>,
    l_ankle |-> <<45, 160, 0>>,    r_ankle |-> <<55, 160, 0>>,
    l_heel |-> <<45, 165, 5>>,     r_heel |-> <<55, 165, 5>>,
    l_foot |-> <<45, 165, -10>>,   r_foot |-> <<55, 165, -10>> ])

\* every landmark confidently detected
AllVisible == [i \in 1..33 |-> 100]
\* elbows and wrists (13..16) detected with confidence 0.1
ArmsHidden == [i \in 1..33 |-> IF i - 1 \in 13..16 THEN 10 ELSE 100]

\* what extract_pose_landmarks hands to the engine: None, or landmarks plus
\* visibilities
NoPose == [landmarks |-> << >>, visibilities |-> << >>, detected |-> FALSE]
Pose(pts, vis) == [landmarks |-> pts, visibilities |-> vis, detected |-> TRUE]

ScoredPoses == { Pose(StandFrame, AllVisible), Pose(SquatFrame, AllVisible),
                 Pose(KneeOnHipFrame, AllVisible), Pose(LeanFrame, AllVisible) }
GatedPoses == { Pose(FeetCutFrame, AllVisible), Pose(StandFrame, ArmsHidden),
                Pose(HeadOnlyFrame, AllVisible) }
Extractions == {NoPose} \cup ScoredPoses \cup GatedPoses

Exercises == {"squat", "pushup", "plank", "lunge", "deadlift"}
AngleKeys == {"left_knee_angle", "right_knee_angle",
              "left_elbow_angle", "right_elbow_angle"}

-----------------------------------------------------------------------------
(* Python dicts are functions on their key sets *)
EmptyDict == [k \in {} |-> 0]
\* d.get(key, default)
Get(d, key, default) == IF key \in DOMAIN d THEN d[key] ELSE default
\* an index beyond the array: the code's "... if len(points_3d) > idx else None"
NoPoint == << >>
PointOrNone(points, idx) == IF Len(points) > idx THEN P(points, idx) ELSE NoPoint

\* bool() of None or of a numpy array: an array of more than one element has
\* no truth value and bool() raises ValueError
ArrayBool(a) ==
    IF a = NoPoint THEN "False"
    ELSE IF Len(a) > 1 THEN "ValueError"
    ELSE IF a[1] # 0 THEN "True" ELSE "False"

RECURSIVE PyAll(_)
\* builtin all(items): bool() of each item in turn, stopping at the first False
PyAll(items) ==
    IF items = << >> THEN "True"
    ELSE LET b == ArrayBool(Head(items))
         IN IF b = "True" THEN PyAll(Tail(items)) ELSE b

-----------------------------------------------------------------------------
(* PostureAnalyzer._calculate_visibility_score *)
KeyIndices == <<11, 12, 23, 24, 25, 26, 27, 28>>

_calculate_visibility_score(points) ==
    LET present == {i \in 1..Len(KeyIndices) : KeyIndices[i] < Len(points)}
        visible == {i \in present :
                      LET pt == P(points, KeyIndices[i])
                      IN /\ 10 <= pt[1] /\ pt[1] <= 90
                         /\ 10 <= pt[2] /\ pt[2] <= 90
                         /\ Abs(pt[3]) < 50}
    IN IF Cardinality(present) > 0
       THEN (Cardinality(visible) * SCALE) \div Cardinality(present)
       ELSE 0

(* PostureAnalyzer._check_body_visibility *)
BodyParts == <<
    [name |-> "head",      indices |-> {0}],
    [name |-> "shoulders", indices |-> {11, 12}],
    [name |-> "arms",      indices |-> {13, 14, 15, 16}],
    [name |-> "hips",      indices |-> {23, 24}],
    [name |-> "legs",      indices |-> {25, 26, 27, 28}],
    [name |-> "feet",      indices |-> {29, 30, 31, 32}] >>

PartMessage(part_name) ==
    CASE part_name = "head" ->
           "Your head is not fully visible. Move back or adjust camera angle."
      [] part_name = "shoulders" ->
           "Your shoulders are cut off. Move back to show your full upper body."
      [] part_name = "arms" ->
           "Your arms are not fully visible. Extend your arms or move back."
      [] part_name = "hips" ->
           "Your hips are not visible. Make sure your torso is in frame."
      [] part_name = "legs" ->
           "Your legs are cut off. Move back to show your full lower body."
      [] part_name = "feet" ->
           "Your feet are not visible. Make sure your entire body is in frame."

MostMissingMessage ==
    "Most of your body is not visible. Please step back and ensure your entire body is in the camera frame."
OneMissingMessage ==
    "One body part is not fully visible. Adjust your position for better analysis."
TooFarMessage ==
    "You appear too far from the camera. Move closer for better analysis."
TooCloseMessage ==
    "You appear too close to the camera. Move back to show your entire body."

\* the landmarks of a part that lie inside the array (part_total counts them)
PartPresent(points, indices) == {idx \in indices : idx < Len(points)}

\* the per-landmark test of the gate
LandmarkPasses(points, visibilities, idx) ==
    LET pt == P(points, idx)
        visibility_score == IF idx < Len(visibilities) THEN visibilities[idx + 1]
                            ELSE 100
    IN /\ 0 <= pt[1] /\ pt[1] <= 100
       /\ 0 <= pt[2] /\ pt[2] <= 100
       /\ Abs(pt[3]) < 100
       /\ visibility_score >= 30

PartVisible(points, visibilities, indices) ==
    {idx \in PartPresent(points, indices) : LandmarkPasses(points, visibilities, idx)}

\* part_total > 0 and part_visible / part_total < 0.5
PartMissing(points, visibilities, indices) ==
    /\ Cardinality(PartPresent(points, indices)) > 0
    /\ 2 * Cardinality(PartVisible(points, visibilities, indices))
         < Cardinality(PartPresent(points, indices))

_check_body_visibility(points, visibilities) ==
    LET IsMissing(part) == PartMissing(points, visibilities, part.indices)
        missing == SelectSeq(BodyParts, IsMissing)
        missing_parts == [i \in 1..Len(missing) |-> missing[i].name]
        part_issues == [i \in 1..Len(missing) |-> PartMessage(missing[i].name)]
        overall == IF Len(missing_parts) > 2 THEN <<MostMissingMessage>>
                   ELSE IF Len(missing_parts) = 1 THEN <<OneMissingMessage>>
                   ELSE << >>
        head_y == P(points, 0)[2]
        feet_y == PyMax(P(points, 29)[2], P(points, 30)[2])
        body_height == Abs(feet_y - head_y)
        distance == IF Len(points) >= 33
                    THEN IF body_height < 30 THEN <<TooFarMessage>>
                         ELSE IF body_height > 90 THEN <<TooCloseMessage>>
                         ELSE << >>
                    ELSE << >>
    IN [ is_fully_visible |-> Len(missing_parts) = 0,
         missing_parts |-> missing_parts,
         visibility_issues |-> part_issues \o overall \o distance,
         visibility_score |-> _calculate_visibility_score(points) ]

-----------------------------------------------------------------------------
(* PostureAnalyzer.calculate_angles *)
\* the angle at vertex b between b->a and b->c, without any zero-length guard
UnguardedAngle(a, b, c) == AngleBetween(Sub3(a, b), Sub3(c, b))

calculate_angles(landmarks) ==
    IF Len(landmarks) >= 33
    THEN [key \in AngleKeys |->
            CASE key = "left_knee_angle" ->
                   UnguardedAngle(P(landmarks, 23), P(landmarks, 25), P(landmarks, 27))
              [] key = "right_knee_angle" ->
                   UnguardedAngle(P(landmarks, 24), P(landmarks, 26), P(landmarks, 28))
              [] key = "left_elbow_angle" ->
                   UnguardedAngle(P(landmarks, 11), P(landmarks, 13), P(landmarks, 15))
              [] key = "right_elbow_angle" ->
                   UnguardedAngle(P(landmarks, 12), P(landmarks, 14), P(landmarks, 16))]
    ELSE EmptyDict

-----------------------------------------------------------------------------
(* KalmanFilter *)
KalmanFilter == [ process_variance |-> SCALE \div 100,
                  measurement_variance |-> SCALE \div 10,
                  estimated_value |-> None,
                  estimation_error |-> SCALE ]

\* kalman_gain = prediction_error / (prediction_error + measurement_variance)
KalmanGain(f) ==
    LET prediction_error == f.estimation_error + f.process_variance
    IN (prediction_error * SCALE) \div (prediction_error + f.measurement_variance)

\* a filter that starts from an estimate of 0 instead of the first measurement
KalmanUpdate_FromZero(f, measurement) ==
    LET prediction == IF f.estimated_value = None THEN 0 ELSE f.estimated_value
        prediction_error == f.estimation_error + f.process_variance
        kalman_gain == KalmanGain(f)
        innovation == FSub(measurement, prediction)
    IN [f EXCEPT
          !.estimated_value = FAdd(prediction, FScale(innovation, kalman_gain, SCALE)),
          !.estimation_error = ((SCALE - kalman_gain) * prediction_error) \div SCALE]

\* KalmanFilter.update: the filter after the measurement
KalmanUpdate(f, measurement) ==
    IF f.estimated_value = None
    THEN [f EXCEPT !.estimated_value = measurement]
    ELSE LET prediction == f.estimated_value
             prediction_error == f.estimation_error + f.process_variance
             kalman_gain == KalmanGain(f)
             innovation == FSub(measurement, prediction)
         IN [f EXCEPT
               !.estimated_value =
                   FAdd(prediction, FScale(innovation, kalman_gain, SCALE)),
               !.estimation_error =
                   ((SCALE - kalman_gain) * prediction_error) \div SCALE]

(* AngleSmoother *)
\* smooth_angle: self.filters after smoothing one key
smooth_angle(flt, angle_key, angle_value) ==
    LET f == IF angle_key \in DOMAIN flt THEN flt[angle_key] ELSE KalmanFilter
    IN [k \in DOMAIN flt \cup {angle_key} |->
          IF k = angle_key THEN KalmanUpdate(f, angle_value) ELSE flt[k]]

\* smooth_angles: self.filters after smoothing every key of the dict (the keys
\* are distinct, so the order of iteration does not matter)
SmoothedFilters(flt, angles) ==
    [k \in DOMAIN flt \cup DOMAIN angles |->
       IF k \in DOMAIN angles THEN smooth_angle(flt, k, angles[k])[k] ELSE flt[k]]

\* smooth_angles: the returned dict
smooth_angles(flt, angles) ==
    [k \in DOMAIN angles |-> SmoothedFilters(flt, angles)[k].estimated_value]

\* history of the measurements each filter has been fed
Observe(obs, angles) ==
    [k \in DOMAIN obs \cup DOMAIN angles |->
       IF k \in DOMAIN angles
       THEN Append(IF k \in DOMAIN obs THEN obs[k] ELSE << >>, angles[k])
       ELSE obs[k]]

-----------------------------------------------------------------------------
(* TemporalAnalyzer *)
\* a queue that never evicts
DequeAppend_NoEvict(q, x, maxlen) == Append(q, x)

\* a full queue that drops its newest entry
DequeAppend_EvictsNewest(q, x, maxlen) ==
    IF Len(q) >= maxlen THEN Append(SubSeq(q, 1, Len(q) - 1), x) ELSE Append(q, x)

\* collections.deque(maxlen=n).append
DequeAppend(q, x, maxlen) ==
    IF Len(q) >= maxlen THEN Append(Tail(q), x) ELSE Append(q, x)

\* a second moment taken about zero instead of the mean
Variance_AboutZero(values) ==
    IF HasNaN(values) THEN NaN
    ELSE SumSeq([i \in 1..Len(values) |-> (values[i] \div 10) * (values[i] \div 10)])
           \div Len(values)

\* np.var(values) in hundredths of a square degree
Variance(values) ==
    IF HasNaN(values) THEN NaN
    ELSE Bind(SumSeq(values) \div Len(values), LAMBDA mean :
           SumSeq([i \in 1..Len(values) |->
                     (Abs(values[i] - mean) \div 10) * (Abs(values[i] - mean) \div 10)])
             \div Len(values))

\* 1.0 / (1.0 + variance / 180.0 ** 2 * 10)
KeyConsistency(values) ==
    Bind(Variance(values), LAMBDA variance :
      IF IsNaN(variance) THEN NaN
      ELSE (SCALE * 32400) \div (32400 + variance \div 10))

\* np.mean(scores)
Mean(scores) ==
    Bind(scores, LAMBDA v : IF HasNaN(v) THEN NaN ELSE SumSeq(v) \div Len(v))

RECURSIVE SetToSeq(_)
SetToSeq(S) == IF S = {} THEN << >>
               ELSE LET x == CHOOSE y \in S : TRUE
                    IN <<x>> \o SetToSeq(S \ {x})

\* an add_frame that stores nothing
add_frame_StoresNothing(landmarks, angles, timestamp) ==
    UNCHANGED <<pose_history, angle_history, timestamps>>

\* TemporalAnalyzer.add_frame
add_frame(landmarks, angles, timestamp) ==
    /\ pose_history' = DequeAppend(pose_history, landmarks, window_size)
    /\ angle_history' = DequeAppend(angle_history, angles, window_size)
    /\ timestamps' = DequeAppend(timestamps, timestamp, window_size)

\* euclidean(p, q) of two (x, y) positions
Euclidean(p, q) == ISqrt(NormSq(Sub2(p, q)))

\* the (x, y) positions of a joint in the frames that hold it
JointPositions(joint_idx) ==
    Bind(SelectSeq(pose_history, LAMBDA pose : joint_idx < Len(pose)), LAMBDA poses :
      [i \in 1..Len(poses) |-> <<P(poses[i], joint_idx)[1], P(poses[i], joint_idx)[2]>>])

\* total_distance: the path length of the positions
TotalDistance(positions) ==
    SumSeq([i \in 1..(Len(positions) - 1) |-> Euclidean(positions[i + 1], positions[i])])

\* a velocity that falls back to the distance when the span is not positive
JointVelocity_DistanceOnBadSpan(positions) ==
    LET time_span == timestamps[Len(timestamps)] - timestamps[1]
    IN IF time_span > 0 THEN TotalDistance(positions) \div time_span
       ELSE TotalDistance(positions)

\* velocities[joint_idx] = total_distance / time_span if time_span > 0 else 0
JointVelocity(positions) ==
    LET time_span == timestamps[Len(timestamps)] - timestamps[1]
    IN IF time_span > 0 THEN TotalDistance(positions) \div time_span ELSE 0

\* TemporalAnalyzer.calculate_movement_velocity: joint index -> velocity
calculate_movement_velocity(joint_indices) ==
    IF Len(pose_history) < 2 THEN EmptyDict
    ELSE [joint_idx \in {j \in joint_indices :
                            Len(JointPositions(j)) >= 2 /\ Len(timestamps) > 1}
            |-> JointVelocity(JointPositions(joint_idx))]

calculate_consistency_score(hist) ==
    IF Len(hist) < 3 THEN SCALE \div 2
    ELSE Bind(SetToSeq(UNION {DOMAIN hist[i] : i \in 1..Len(hist)}), LAMBDA all_keys :
           IF Len(all_keys) > 0
           THEN Mean([j \in 1..Len(all_keys) |->
                        KeyConsistency([i \in 1..Len(hist) |->
                                          Get(hist[i], all_keys[j], 0)])])
           ELSE SCALE \div 2)

-----------------------------------------------------------------------------
(* AdvancedGeometricAnalyzer *)
SpineIndices == <<0, 11, 12, 23, 24>>

\* the angles between consecutive spine segments with both segments non-zero
SegmentAngles(spine_2d) ==
    Bind(SelectSeq([i \in 1..(Len(spine_2d) - 2) |-> i],
                   LAMBDA i : /\ NormSq(Sub2(spine_2d[i + 1], spine_2d[i])) > 0
                              /\ NormSq(Sub2(spine_2d[i + 2], spine_2d[i + 1])) > 0),
         LAMBDA usable :
           [k \in 1..Len(usable) |->
              AngleBetween(Sub2(spine_2d[usable[k] + 1], spine_2d[usable[k]]),
                           Sub2(spine_2d[usable[k] + 2], spine_2d[usable[k] + 1]))])

\* the result for a mean segment angle
CurvatureOf(avg_angle) ==
    [ curvature |-> (Abs(180 * DEG - avg_angle) * SCALE) \div (180 * DEG),
      is_straight |-> avg_angle > 170 * DEG,
      avg_angle |-> avg_angle ]

calculate_spine_curvature(points) ==
    IF Len(points) < 33 THEN [curvature |-> 0, is_straight |-> TRUE]
    ELSE
    Bind(SelectSeq(SpineIndices, LAMBDA idx : idx < Len(points)), LAMBDA present :
      IF Len(present) < 3 THEN [curvature |-> 0, is_straight |-> TRUE]
      ELSE
      \* side view: the y and z coordinates
      Bind(SegmentAngles([i \in 1..Len(present) |->
                            <<P(points, present[i])[2], P(points, present[i])[3]>>]),
           LAMBDA angles :
             IF Len(angles) > 0
             THEN Bind(SumSeq(angles) \div Len(angles), CurvatureOf)
             ELSE [curvature |-> 0, is_straight |-> TRUE]))

\* calculate_tracking_score: 1.0 / (1.0 + knee_offset * 20), with
\* knee_offset = |knee.x - (foot.x + ankle.x) / 2|
calculate_tracking_score(hip, knee, ankle, foot) ==
    IF hip = NoPoint \/ knee = NoPoint \/ ankle = NoPoint \/ foot = NoPoint THEN 0
    ELSE LET twice_offset == Abs(2 * knee[1] - (foot[1] + ankle[1]))
         IN (SCALE * 10) \div (10 + twice_offset)

calculate_knee_tracking_accuracy(points) ==
    IF Len(points) < 33
    THEN [left_tracking |-> 0, right_tracking |-> 0, overall |-> 0]
    ELSE Bind(<<calculate_tracking_score(PointOrNone(points, 23), PointOrNone(points, 25),
                                         PointOrNone(points, 27), PointOrNone(points, 31)),
                calculate_tracking_score(PointOrNone(points, 24), PointOrNone(points, 26),
                                         PointOrNone(points, 28), PointOrNone(points, 32))>>,
              LAMBDA tracking :
                [ left_tracking |-> tracking[1],
                  right_tracking |-> tracking[2],
                  overall |-> (tracking[1] + tracking[2]) \div 2 ])

\* a dict of scores, or the exception that left the function
Raised == [raised |-> TRUE]

calculate_body_alignment_score(points) ==
    IF Len(points) < 33
    THEN [raised |-> FALSE, alignment |-> 0, shoulder_hip_parallel |-> 0,
          vertical_alignment |-> 0]
    ELSE
    LET left_shoulder == PointOrNone(points, 11)
        right_shoulder == PointOrNone(points, 12)
        left_hip == PointOrNone(points, 23)
        right_hip == PointOrNone(points, 24)
        all4 == PyAll(<<left_shoulder, right_shoulder, left_hip, right_hip>>)
        all2 == PyAll(<<left_shoulder, left_hip>>)
        shoulder_line == Sub2(right_shoulder, left_shoulder)
        hip_line == Sub2(right_hip, left_hip)
        angle == AngleBetween(shoulder_line, hip_line)
        parallel_score == SCALE - (PyMin(angle, 180 * DEG - angle) * SCALE) \div (90 * DEG)
        shoulder_hip_score ==
            IF all4 = "True" /\ NormSq(shoulder_line) > 0 /\ NormSq(hip_line) > 0
            THEN PyMax(0, parallel_score)
            ELSE SCALE \div 2
        vertical_alignment_score ==
            IF all2 = "True"
            THEN (SCALE * 10) \div (10 + Abs(left_shoulder[1] - left_hip[1]))
            ELSE SCALE \div 2
    IN IF all4 = "ValueError" \/ all2 = "ValueError" THEN Raised
       ELSE [ raised |-> FALSE,
              alignment |-> (shoulder_hip_score + vertical_alignment_score) \div 2,
              shoulder_hip_parallel |-> shoulder_hip_score,
              vertical_alignment |-> vertical_alignment_score ]

\* a hip hinge angle computed without the length check
calculate_hip_hinge_angle_Unchecked(points) ==
    IF PyAll(<<PointOrNone(points, 23), PointOrNone(points, 25),
               PointOrNone(points, 11)>>) = "False"
    THEN 0 ELSE ValueError

calculate_hip_hinge_angle(points) ==
    IF Len(points) < 33 THEN 0
    ELSE
    LET left_hip == PointOrNone(points, 23)
        left_knee == PointOrNone(points, 25)
        left_shoulder == PointOrNone(points, 11)
        all3 == PyAll(<<left_hip, left_knee, left_shoulder>>)
        hip_knee == Sub2(left_knee, left_hip)
        hip_shoulder == Sub2(left_shoulder, left_hip)
    IN IF all3 = "ValueError" THEN ValueError
       ELSE IF all3 = "False" THEN 0
       ELSE IF NormSq(hip_knee) > 0 /\ NormSq(hip_shoulder) > 0
       THEN AngleBetween(hip_knee, hip_shoulder)
       ELSE 0

-----------------------------------------------------------------------------
(* BiomechanicalAnalyzer *)
\* the depth tier of analyze_squat_biomechanics
\* a top depth tier that ends below 90 degrees
SquatDepthScore_TopTierBelow90(knee_angle) ==
    IF FLe(85 * DEG, knee_angle) /\ FLt(knee_angle, 90 * DEG) THEN SCALE
    ELSE IF FLe(75 * DEG, knee_angle) /\ FLe(knee_angle, 105 * DEG) THEN (8 * SCALE) \div 10
    ELSE IF FLe(65 * DEG, knee_angle) /\ FLe(knee_angle, 115 * DEG) THEN (6 * SCALE) \div 10
    ELSE (3 * SCALE) \div 10

SquatDepthScore(knee_angle) ==
    IF FLe(85 * DEG, knee_angle) /\ FLe(knee_angle, 95 * DEG) THEN SCALE
    ELSE IF FLe(75 * DEG, knee_angle) /\ FLe(knee_angle, 105 * DEG) THEN (8 * SCALE) \div 10
    ELSE IF FLe(65 * DEG, knee_angle) /\ FLe(knee_angle, 115 * DEG) THEN (6 * SCALE) \div 10
    ELSE (3 * SCALE) \div 10

analyze_squat_biomechanics(points, angles) ==
    Bind([ depth_score |-> SquatDepthScore(Get(angles, "left_knee_angle", 180 * DEG)),
           back_straightness |-> SCALE - calculate_spine_curvature(points).curvature,
           knee_tracking |-> calculate_knee_tracking_accuracy(points).overall ],
         LAMBDA results :
           [ raised |-> FALSE,
             depth_score |-> results.depth_score,
             back_straightness |-> results.back_straightness,
             knee_tracking |-> results.knee_tracking,
             overall_score |->
                 (results.depth_score * 4 + results.back_straightness * 3
                    + results.knee_tracking * 3) \div 10 ])

\* the depth tier of analyze_pushup_biomechanics
PushupDepthScore(elbow_angle) ==
    IF FLe(80 * DEG, elbow_angle) /\ FLe(elbow_angle, 100 * DEG) THEN SCALE
    ELSE IF FLe(70 * DEG, elbow_angle) /\ FLe(elbow_angle, 110 * DEG) THEN (7 * SCALE) \div 10
    ELSE (4 * SCALE) \div 10

analyze_pushup_biomechanics(points, angles) ==
    Bind(calculate_body_alignment_score(points), LAMBDA alignment :
      IF alignment.raised THEN Raised
      ELSE Bind(PushupDepthScore(Get(angles, "left_elbow_angle", 180 * DEG)),
                LAMBDA depth_score :
                  [ raised |-> FALSE,
                    body_alignment |-> alignment.alignment,
                    depth_score |-> depth_score,
                    core_engagement |-> alignment.vertical_alignment,
                    overall_score |->
                        (alignment.alignment * 4 + depth_score * 4
                           + alignment.vertical_alignment * 2) \div 10 ]))

\* hip_position_score = 1.0 / (1.0 + abs(shoulder_hip - hip_ankle) * 5)
PlankHipPosition(points) ==
    IF Len(points) >= 33
    THEN (SCALE * 20)
           \div (20 + Abs((P(points, 23)[2] - P(points, 11)[2])
                            - (P(points, 27)[2] - P(points, 23)[2])))
    ELSE SCALE \div 2

analyze_plank_biomechanics(points, angles) ==
    Bind(calculate_body_alignment_score(points), LAMBDA alignment :
      IF alignment.raised THEN Raised
      ELSE Bind(PlankHipPosition(points), LAMBDA hip_position :
             [ raised |-> FALSE,
               body_straightness |-> alignment.vertical_alignment,
               hip_position |-> hip_position,
               overall_score |->
                   (alignment.vertical_alignment * 6 + hip_position * 4) \div 10 ]))

-----------------------------------------------------------------------------
(* PostureAnalyzer: exercise scorers.  hist is temporal_analyzer.angle_history *)

\* a blend that weights the base score and the consistency score equally
BlendConsistency_EvenWeights(biomechanics, hist) ==
    Bind(biomechanics, LAMBDA results :
      IF results.raised THEN ValueError
      ELSE Bind(FScale(FAdd(results.overall_score * 5,
                            FScale(calculate_consistency_score(hist), 5, 1)), 1, 10),
                LAMBDA final_score : PyMin(final_score, SCALE)))

\* final_score = base_score * 0.9 + consistency * 0.1; min(final_score, 1.0)
BlendConsistency(biomechanics, hist) ==
    Bind(biomechanics, LAMBDA results :
      IF results.raised THEN ValueError
      ELSE Bind(FScale(FAdd(results.overall_score * 9, calculate_consistency_score(hist)),
                       1, 10),
                LAMBDA final_score : PyMin(final_score, SCALE)))

_score_squat_form(points, angles, hist) ==
    BlendConsistency(analyze_squat_biomechanics(points, angles), hist)

_score_pushup_form(points, angles, hist) ==
    BlendConsistency(analyze_pushup_biomechanics(points, angles), hist)

_score_plank_form(points, angles, hist) ==
    BlendConsistency(analyze_plank_biomechanics(points, angles), hist)

\* the angle at vertex b, or the default 90.0 when an edge has zero length
GuardedAngle(a, b, c) ==
    IF NormSq(Sub3(a, b)) > 0 /\ NormSq(Sub3(c, b)) > 0
    THEN AngleBetween(Sub3(a, b), Sub3(c, b))
    ELSE 90 * DEG

_calculate_front_knee_angle(points) ==
    IF Len(points) >= 33
    THEN GuardedAngle(P(points, 23), P(points, 25), P(points, 27))
    ELSE 90 * DEG

\* a front-knee tier with the values of the squat depth tier, weighted 40%
FrontKneeScore_SquatTiers(front_knee_angle) ==
    (SquatDepthScore(front_knee_angle) * 4) \div 10

\* the front-knee tier of _score_lunge_form, already weighted
FrontKneeScore(front_knee_angle) ==
    IF 85 * DEG <= front_knee_angle /\ front_knee_angle <= 95 * DEG THEN (4 * SCALE) \div 10
    ELSE IF 75 * DEG <= front_knee_angle /\ front_knee_angle <= 105 * DEG
    THEN (3 * SCALE) \div 10
    ELSE IF 65 * DEG <= front_knee_angle /\ front_knee_angle <= 115 * DEG
    THEN (2 * SCALE) \div 10
    ELSE IF 55 * DEG <= front_knee_angle /\ front_knee_angle <= 125 * DEG
    THEN (1 * SCALE) \div 10
    ELSE 0

_check_back_knee_position(points) ==
    IF Len(points) >= 33
          /\ NormSq(Sub3(P(points, 24), P(points, 26))) > 0
          /\ NormSq(Sub3(P(points, 28), P(points, 26))) > 0
    THEN Bind(AngleBetween(Sub3(P(points, 24), P(points, 26)),
                           Sub3(P(points, 28), P(points, 26))),
              LAMBDA angle :
                IF 80 * DEG <= angle /\ angle <= 100 * DEG THEN SCALE
                ELSE IF 70 * DEG <= angle /\ angle <= 110 * DEG THEN (7 * SCALE) \div 10
                ELSE (4 * SCALE) \div 10)
    ELSE (7 * SCALE) \div 10

_check_torso_alignment(points) == SCALE - calculate_spine_curvature(points).curvature

_score_lunge_form(points, angles) ==
    Bind(_calculate_front_knee_angle(points), FrontKneeScore)
      + (_check_back_knee_position(points) * 3) \div 10
      + (_check_torso_alignment(points) * 3) \div 10

_check_deadlift_back(points) == SCALE - calculate_spine_curvature(points).curvature

_check_hip_hinge(points) ==
    Bind(calculate_hip_hinge_angle(points), LAMBDA hip_angle :
      IF hip_angle = ValueError THEN ValueError
      ELSE IF 120 * DEG <= hip_angle /\ hip_angle <= 160 * DEG THEN SCALE
      ELSE IF 100 * DEG <= hip_angle /\ hip_angle <= 180 * DEG THEN (7 * SCALE) \div 10
      ELSE (4 * SCALE) \div 10)

_check_bar_path(points) == SCALE \div 2

\* back straightness is scored first, then the hip hinge, then the bar path
_score_deadlift_form(points, angles) ==
    Bind(_check_deadlift_back(points), LAMBDA back_straightness :
      Bind(_check_hip_hinge(points), LAMBDA hip_hinge_score :
        IF hip_hinge_score = ValueError THEN ValueError
        ELSE (back_straightness * 5) \div 10 + (hip_hinge_score * 3) \div 10
               + (_check_bar_path(points) * 2) \div 10))

_calculate_exercise_specific_score(points, exercise_type, angles, hist) ==
    CASE exercise_type = "squat" -> _score_squat_form(points, angles, hist)
      [] exercise_type = "pushup" -> _score_pushup_form(points, angles, hist)
      [] exercise_type = "plank" -> _score_plank_form(points, angles, hist)
      [] exercise_type = "lunge" -> _score_lunge_form(points, angles)
      [] exercise_type = "deadlift" -> _score_deadlift_form(points, angles)
      [] OTHER -> (3 * SCALE) \div 10

\* form_score = visibility_score * 0.2 + exercise_score * 0.8; min(form_score, 1.0)
_calculate_form_score(landmarks, exercise_type, angles, hist) ==
    IF Len(landmarks) < 33 THEN 0
    ELSE Bind(_calculate_visibility_score(landmarks), LAMBDA visibility_score :
           Bind(_calculate_exercise_specific_score(landmarks, exercise_type, angles, hist),
                LAMBDA exercise_score :
                  IF exercise_score = ValueError THEN ValueError
                  ELSE Bind(FScale(FAdd(visibility_score * 2, FScale(exercise_score, 8, 1)),
                                   1, 10),
                            LAMBDA form_score : PyMin(form_score, SCALE))))

-----------------------------------------------------------------------------
(* PostureAnalyzer._generate_corrections *)
GoDeeper == "Go deeper - aim for 90-degree knee angle"
NotTooDeep == "Don't go too deep - maintain control"

\* the strings appended under "if form_score < 0.7"
GatedCorrections(exercise_type) ==
    CASE exercise_type = "squat" ->
           << "Keep your back straight and chest up",
              "Ensure knees track over toes" >>
      [] exercise_type = "pushup" ->
           << "Keep your body in a straight line",
              "Lower chest closer to the ground",
              "Push through your palms, not fingertips" >>
      [] exercise_type = "plank" ->
           << "Keep your body straight from head to heels",
              "Engage your core muscles",
              "Don't let hips sag or pike up" >>
      [] exercise_type = "lunge" ->
           << "Keep front knee over ankle",
              "Lower back knee toward ground",
              "Maintain upright torso" >>
      [] exercise_type = "deadlift" ->
           << "Keep your back straight throughout the movement",
              "Hinge at hips, not waist",
              "Keep the bar close to your body" >>
      [] OTHER -> << >>

\* the squat cue chosen from the knee angle alone
KneeCue(exercise_type, angles) ==
    LET knee_angle == Get(angles, "left_knee_angle", 0)
    IN IF exercise_type # "squat" THEN << >>
       ELSE IF FLt(knee_angle, 80 * DEG) THEN <<GoDeeper>>
       ELSE IF FGt(knee_angle, 120 * DEG) THEN <<NotTooDeep>>
       ELSE << >>

\* corrections gated at 0.8 instead of 0.7
_generate_corrections_Gate08(exercise_type, angles, form_score) ==
    KneeCue(exercise_type, angles)
      \o (IF FLt(form_score, (8 * SCALE) \div 10) THEN GatedCorrections(exercise_type)
          ELSE << >>)

_generate_corrections(exercise_type, angles, form_score) ==
    KneeCue(exercise_type, angles)
      \o (IF FLt(form_score, (7 * SCALE) \div 10) THEN GatedCorrections(exercise_type)
          ELSE << >>)

(* PostureAnalyzer._extract_key_points: entry i is landmark_names[i] -> (x, y) *)
_extract_key_points(landmarks) ==
    [i \in 1..(IF Len(landmarks) < 33 THEN Len(landmarks) ELSE 33) |->
       <<landmarks[i][1], landmarks[i][2]>>]

-----------------------------------------------------------------------------
(* PostureAnalyzer.analyze_exercise_form *)
NoPoseCorrections == <<
    "No pose detected. Please ensure you're visible in the camera.",
    "Make sure you're standing in front of the camera with good lighting.",
    "Try moving closer to the camera or adjusting the angle." >>
OnceVisibleMessage ==
    "Once your entire body is visible, we can analyze your exercise form."
\* the source puts a check-mark emoji and a space in front of this text
VisibilityConfirmation ==
    "Great! Your entire body is visible for accurate analysis."

\* the dataclass returned by a call; branch names the return statement taken
PostureAnalysis(branch, exercise_type, confidence, form_score, corrections, key_points, is_correct_form) ==
    [ outcome |-> "returned", branch |-> branch,
      exercise_type |-> exercise_type, confidence |-> confidence,
      form_score |-> form_score, corrections |-> corrections,
      key_points |-> key_points, is_correct_form |-> is_correct_form ]

\* a call that an exception left
RaisedCall(exercise_type) ==
    [ outcome |-> "raised", branch |-> "analysed", exercise_type |-> exercise_type ]

NoResult == [outcome |-> "none", branch |-> "none"]
NoProbe == [op |-> "none"]

\* the timestamps time.time() may return: the wall clock does not run backwards
\* between two frames of a session
ClockReadings == {t \in 0..MaxTime : timestamps = << >> \/ t >= timestamps[Len(timestamps)]}

\* a no-pose return that reports the confidence of the visibility return
NoPoseReturn_GateConfidence(exercise_type) ==
    /\ result' = PostureAnalysis("no_pose", exercise_type, (3 * SCALE) \div 10, 0,
                                 NoPoseCorrections, << >>, FALSE)
    /\ UNCHANGED <<filters, pose_history, angle_history, timestamps, observed, calls>>

\* "if landmarks is None": the no-pose return
NoPoseReturn(exercise_type) ==
    /\ result' = PostureAnalysis("no_pose", exercise_type, 0, 0, NoPoseCorrections,
                                 << >>, FALSE)
    /\ UNCHANGED <<filters, pose_history, angle_history, timestamps, observed, calls>>

\* a visibility return that drops the issue list
VisibilityCorrections_NoIssues(visibility_info) == <<OnceVisibleMessage>>

\* the corrections of the visibility return
VisibilityCorrections(visibility_info) ==
    visibility_info.visibility_issues
      \o (IF visibility_info.visibility_score > (3 * SCALE) \div 10
          THEN <<OnceVisibleMessage>> ELSE << >>)

\* "if not visibility_info['is_fully_visible']": the visibility return
NotVisibleReturn(landmarks, exercise_type, visibility_info) ==
    /\ result' = PostureAnalysis("not_visible", exercise_type, (3 * SCALE) \div 10, 0,
                                 VisibilityCorrections(visibility_info),
                                 _extract_key_points(landmarks), FALSE)
    /\ UNCHANGED <<filters, pose_history, angle_history, timestamps, observed, calls>>

\* the corrections of a scored call: the confirmation is put in front
ScoredCorrections(visibility_info, generated) ==
    IF visibility_info.is_fully_visible
         /\ visibility_info.visibility_score > (8 * SCALE) \div 10
    THEN <<VisibilityConfirmation>> \o generated
    ELSE generated

\* a verdict that looks at the score alone
IsCorrectForm_ScoreOnly(form_score, corrections) ==
    FGt(form_score, (7 * SCALE) \div 10)

\* is_correct_form = form_score > 0.7 and len(corrections) <= 1
IsCorrectForm(form_score, corrections) ==
    FGt(form_score, (7 * SCALE) \div 10) /\ Len(corrections) <= 1

\* a scored return that reports the confidence of the visibility return
ScoredReturn_GateConfidence(landmarks, exercise_type, form_score, corrections) ==
    PostureAnalysis("analysed", exercise_type, (3 * SCALE) \div 10, form_score,
                    corrections, _extract_key_points(landmarks),
                    FGt(form_score, (7 * SCALE) \div 10) /\ Len(corrections) <= 1)

\* the return statement of a scored call
ScoredReturn(landmarks, exercise_type, form_score, corrections) ==
    PostureAnalysis("analysed", exercise_type, (85 * SCALE) \div 100, form_score,
                    corrections, _extract_key_points(landmarks),
                    IsCorrectForm(form_score, corrections))

\* the rest of the call: angles, smoothing, window update, scoring, corrections
\* a scoring path that scores before the window takes the frame
Analysed_ScoresBeforeWindowUpdate(landmarks, exercise_type, visibility_info, t) ==
    \E raw_angles \in {calculate_angles(landmarks)} :
    \E new_filters \in {SmoothedFilters(filters, raw_angles)} :
    \E angles \in {[k \in DOMAIN raw_angles |-> new_filters[k].estimated_value]} :
    \E form_score \in
         {_calculate_form_score(landmarks, exercise_type, angles, angle_history)} :
    \E corrections \in
         {ScoredCorrections(visibility_info,
                            _generate_corrections(exercise_type, angles, form_score))} :
       /\ filters' = new_filters
       /\ observed' = Observe(observed, raw_angles)
       /\ add_frame(landmarks, angles, t)
       /\ calls' = calls + 1
       /\ result' = IF form_score = ValueError THEN RaisedCall(exercise_type)
                    ELSE ScoredReturn(landmarks, exercise_type, form_score, corrections)

Analysed(landmarks, exercise_type, visibility_info, t) ==
    \E raw_angles \in {calculate_angles(landmarks)} :
    \E new_filters \in {SmoothedFilters(filters, raw_angles)} :
    \E angles \in {[k \in DOMAIN raw_angles |-> new_filters[k].estimated_value]} :
    \E hist \in {DequeAppend(angle_history, angles, window_size)} :
    \E form_score \in {_calculate_form_score(landmarks, exercise_type, angles, hist)} :
    \E corrections \in
         {ScoredCorrections(visibility_info,
                            _generate_corrections(exercise_type, angles, form_score))} :
       /\ filters' = new_filters
       /\ observed' = Observe(observed, raw_angles)
       /\ add_frame(landmarks, angles, t)
       /\ calls' = calls + 1
       /\ result' = IF form_score = ValueError THEN RaisedCall(exercise_type)
                    ELSE ScoredReturn(landmarks, exercise_type, form_score, corrections)

\* one call of analyze_exercise_form; readings are the values time.time() may return
AnalyzeCall(image, exercise_type, readings) ==
    /\ probe' = [op |-> "analyze_exercise_form", image |-> image,
                 exercise_type |-> exercise_type]
    \* extract_pose_landmarks stores the visibilities of the pose it found
    /\ last_visibilities' = image.visibilities
    /\ UNCHANGED window_size
    /\ IF ~image.detected
       THEN NoPoseReturn(exercise_type)
       ELSE \E visibility_info \in
                   {_check_body_visibility(image.landmarks, image.visibilities)} :
               IF ~visibility_info.is_fully_visible
               THEN NotVisibleReturn(image.landmarks, exercise_type, visibility_info)
               ELSE \E t \in readings :
                       Analysed(image.landmarks, exercise_type, visibility_info, t)

analyze_exercise_form(image, exercise_type) ==
    /\ calls < MaxCalls
    /\ AnalyzeCall(image, exercise_type, ClockReadings)
    /\ UNCHANGED twin

-----------------------------------------------------------------------------
(* A second PostureAnalyzer instance, as a value *)
\* PostureAnalyzer.__init__: empty smoother, empty window, no call made
FreshAnalyzer ==
    [ filters |-> EmptyDict, pose_history |-> << >>, angle_history |-> << >>,
      timestamps |-> << >>, result |-> NoResult ]

\* a window that leaves out a frame whose clock reading equals the newest one
WindowAfter_SkipsSameReading(analyzer, landmarks, angles, timestamp) ==
    IF analyzer.timestamps # << >>
         /\ analyzer.timestamps[Len(analyzer.timestamps)] = timestamp
    THEN analyzer
    ELSE [analyzer EXCEPT
            !.pose_history = DequeAppend(analyzer.pose_history, landmarks, window_size),
            !.angle_history = DequeAppend(analyzer.angle_history, angles, window_size),
            !.timestamps = DequeAppend(analyzer.timestamps, timestamp, window_size)]

\* TemporalAnalyzer.add_frame on the instance
WindowAfter(analyzer, landmarks, angles, timestamp) ==
    [analyzer EXCEPT
       !.pose_history = DequeAppend(analyzer.pose_history, landmarks, window_size),
       !.angle_history = DequeAppend(analyzer.angle_history, angles, window_size),
       !.timestamps = DequeAppend(analyzer.timestamps, timestamp, window_size)]

\* the scoring path of analyze_exercise_form on the instance
ScoredAfter(analyzer, landmarks, exercise_type, visibility_info, t) ==
    Bind(calculate_angles(landmarks), LAMBDA raw_angles :
    Bind(SmoothedFilters(analyzer.filters, raw_angles), LAMBDA new_filters :
    Bind([k \in DOMAIN raw_angles |-> new_filters[k].estimated_value], LAMBDA angles :
    Bind(WindowAfter([analyzer EXCEPT !.filters = new_filters], landmarks, angles, t),
         LAMBDA updated :
    Bind(_calculate_form_score(landmarks, exercise_type, angles, updated.angle_history),
         LAMBDA form_score :
      [updated EXCEPT !.result =
         IF form_score = ValueError THEN RaisedCall(exercise_type)
         ELSE ScoredReturn(landmarks, exercise_type, form_score,
                           ScoredCorrections(visibility_info,
                               _generate_corrections(exercise_type, angles,
                                                     form_score)))])))))

\* analyze_exercise_form on the instance: the instance after the call
AnalyzerAfter(analyzer, image, exercise_type, t) ==
    IF ~image.detected
    THEN [analyzer EXCEPT !.result =
            PostureAnalysis("no_pose", exercise_type, 0, 0, NoPoseCorrections,
                            << >>, FALSE)]
    ELSE Bind(_check_body_visibility(image.landmarks, image.visibilities),
              LAMBDA visibility_info :
                IF ~visibility_info.is_fully_visible
                THEN [analyzer EXCEPT !.result =
                        PostureAnalysis("not_visible", exercise_type,
                                        (3 * SCALE) \div 10, 0,
                                        VisibilityCorrections(visibility_info),
                                        _extract_key_points(image.landmarks), FALSE)]
                ELSE ScoredAfter(analyzer, image.landmarks, exercise_type,
                                 visibility_info, t))

-----------------------------------------------------------------------------
(* One PostureAnalyzer serving a sequence of calls *)
Init ==
    /\ filters = EmptyDict
    /\ pose_history = << >>
    /\ angle_history = << >>
    /\ timestamps = << >>
    /\ window_size = WindowSize
    /\ last_visibilities = << >>
    /\ result = NoResult
    /\ observed = EmptyDict
    /\ calls = 0
    /\ probe = NoProbe
    /\ twin = FreshAnalyzer

Next ==
    \E image \in Extractions, exercise_type \in Exercises :
        analyze_exercise_form(image, exercise_type)

Spec == Init /\ [][Next]_vars

-----------------------------------------------------------------------------
(* A TemporalAnalyzer of any window size, driven directly through add_frame *)
WindowAngleSets == { [left_knee_angle |-> 90 * DEG],
                     [left_knee_angle |-> 180 * DEG, left_elbow_angle |-> 90 * DEG] }

AddFrame(landmarks, angles, timestamp) ==
    /\ calls < MaxAdds
    /\ add_frame(landmarks, angles, timestamp)
    /\ calls' = calls + 1
    /\ probe' = [op |-> "add_frame", landmarks |-> landmarks, angles |-> angles,
                 timestamp |-> timestamp]
    /\ UNCHANGED <<filters, window_size, last_visibilities, result, observed, twin>>

InitWindow ==
    /\ window_size \in 1..MaxWindow
    /\ filters = EmptyDict
    /\ pose_history = << >>
    /\ angle_history = << >>
    /\ timestamps = << >>
    /\ last_visibilities = << >>
    /\ result = NoResult
    /\ observed = EmptyDict
    /\ calls = 0
    /\ probe = NoProbe
    /\ twin = FreshAnalyzer

\* the joint lists asked for; index 40 lies outside every frame
JointLists == { {0, 25}, {25, 40} }

MovementVelocity(joint_indices) ==
    /\ probe' = [op |-> "calculate_movement_velocity", joint_indices |-> joint_indices,
                 returned |-> calculate_movement_velocity(joint_indices)]
    /\ UNCHANGED <<filters, pose_history, angle_history, timestamps, window_size,
                   last_visibilities, result, observed, calls, twin>>

NextWindow ==
    \/ \E landmarks \in {StandFrame, SquatFrame}, angles \in WindowAngleSets,
          timestamp \in 0..MaxTime :
           AddFrame(landmarks, angles, timestamp)
    \/ \E joint_indices \in JointLists : MovementVelocity(joint_indices)

SpecWindow == InitWindow /\ [][NextWindow]_vars

-----------------------------------------------------------------------------
(* An AngleSmoother driven directly through smooth_angle *)
SmootherKeys == {"left_knee_angle", "left_elbow_angle"}
SmootherValues == {45 * DEG, 90 * DEG, NaN}

SmoothAngle(angle_key, angle_value) ==
    /\ calls < MaxObs
    /\ filters' = smooth_angle(filters, angle_key, angle_value)
    /\ observed' = Observe(observed, [k \in {angle_key} |-> angle_value])
    /\ calls' = calls + 1
    /\ probe' = [op |-> "smooth_angle", angle_key |-> angle_key,
                 angle_value |-> angle_value,
                 returned |-> smooth_angle(filters, angle_key, angle_value)[angle_key]
                                .estimated_value]
    /\ UNCHANGED <<pose_history, angle_history, timestamps, window_size,
                   last_visibilities, result, twin>>

NextSmoother ==
    \E angle_key \in SmootherKeys, angle_value \in SmootherValues :
        SmoothAngle(angle_key, angle_value)

SpecSmoother == Init /\ [][NextSmoother]_vars

-----------------------------------------------------------------------------
(* The visibility gate applied to landmark arrays of any length *)
GateFrames == {StandFrame, FeetCutFrame, HeadOnlyFrame}
GateLengths == {0, 1, 12, 14, 24, 26, 29, 30, 31, 33}
\* landmarks detected with confidence 0.1
HiddenSets == { {}, {0}, {11}, {11, 12}, {13}, {13, 14}, {13, 14, 15},
                {23, 24}, {25, 26, 27}, {29, 30}, {29, 30, 31} }
Visibilities(hidden, n) == [i \in 1..n |-> IF i - 1 \in hidden THEN 10 ELSE 100]
VisibilityLengths == {0, 14, 33}

CheckBodyVisibility(points, visibilities) ==
    /\ last_visibilities' = visibilities
    /\ probe' = [op |-> "_check_body_visibility", points |-> points,
                 visibilities |-> visibilities,
                 returned |-> _check_body_visibility(points, visibilities)]
    /\ UNCHANGED <<filters, pose_history, angle_history, timestamps, window_size,
                   result, observed, calls, twin>>

NextGate ==
    \E frame \in GateFrames, n \in GateLengths, hidden \in HiddenSets,
       m \in VisibilityLengths :
        CheckBodyVisibility(SubSeq(frame, 1, n), Visibilities(hidden, m))

SpecGate == Init /\ [][NextGate]_vars

-----------------------------------------------------------------------------
(* Properties of the engine *)
Range(s) == {s[i] : i \in DOMAIN s}

\* the last call was analyze_exercise_form
Called == probe.op = "analyze_exercise_form"

\* some region of the frame of the last call is reported missing
SomeRegionMissing ==
    \E i \in DOMAIN BodyParts :
        PartMissing(probe.image.landmarks, probe.image.visibilities, BodyParts[i].indices)

\* C1: for every exercise type and every 33-point frame, analyze_exercise_form
\* ends by returning a FormResult: no exception leaves the engine.  The code
\* violates this: the push-up, plank and deadlift scorers raise on every fully
\* visible frame.
C1_NoExceptionPropagates == result.outcome # "raised"

\* C2: when landmarks are extracted but a region is reported missing, the call
\* returns form score 0, confidence 0.3, verdict false, and corrections that
\* start with the visibility issues and hold a region-specific message.
C2_GatedResult ==
    (Called /\ probe.image.detected /\ SomeRegionMissing) =>
        LET issues == _check_body_visibility(probe.image.landmarks,
                                             probe.image.visibilities).visibility_issues
        IN /\ result.outcome = "returned"
           /\ result.branch = "not_visible"
           /\ result.form_score = 0
           /\ result.confidence = (3 * SCALE) \div 10
           /\ result.is_correct_form = FALSE
           /\ Len(result.corrections) >= Len(issues)
           /\ SubSeq(result.corrections, 1, Len(issues)) = issues
           /\ \E i \in DOMAIN BodyParts :
                 PartMessage(BodyParts[i].name) \in Range(result.corrections)

\* a gated call that follows scored calls of the session
C2_Witness ==
    /\ Called /\ probe.image.detected /\ SomeRegionMissing
    /\ result.branch = "not_visible"
    /\ calls >= 1
    /\ MostMissingMessage \in Range(result.corrections)

\* C3: when the extractor returns no landmarks, the call returns confidence 0,
\* form score 0, verdict false, no key points and the re-positioning
\* instructions, whatever the exercise type and the frames analysed before.
C3_NoPoseResult ==
    (Called /\ ~probe.image.detected) =>
        /\ result.outcome = "returned"
        /\ result.branch = "no_pose"
        /\ result.exercise_type = probe.exercise_type
        /\ result.confidence = 0
        /\ result.form_score = 0
        /\ result.is_correct_form = FALSE
        /\ result.key_points = << >>
        /\ result.corrections = NoPoseCorrections

\* a no-pose call on an analyzer whose window already holds two frames
C3_Witness ==
    /\ Called /\ ~probe.image.detected
    /\ result.branch = "no_pose"
    /\ Len(pose_history) >= 2

\* C4: every FormResult has confidence 0.0, 0.3 or 0.85, and the value names
\* the branch: 0.0 iff no pose, 0.3 iff a pose with a region missing, 0.85 iff
\* the frame was fully analysed and scored.
C4_ConfidenceNamesBranch ==
    (Called /\ result.outcome = "returned") =>
        /\ result.confidence \in {0, (3 * SCALE) \div 10, (85 * SCALE) \div 100}
        /\ result.confidence = 0 <=> ~probe.image.detected
        /\ result.confidence = (3 * SCALE) \div 10
             <=> (probe.image.detected /\ SomeRegionMissing)
        /\ result.confidence = (85 * SCALE) \div 100
             <=> (probe.image.detected /\ ~SomeRegionMissing
                    /\ result.branch = "analysed")
        /\ (probe.image.detected /\ ~SomeRegionMissing) => result.branch = "analysed"

\* a scored result of confidence 0.85
C4_Witness ==
    /\ Called /\ result.outcome = "returned"
    /\ result.branch = "analysed"
    /\ result.confidence = (85 * SCALE) \div 100
    /\ calls >= 2

\* C5: after any sequence of calls the form score of every returned FormResult
\* is a number in [0,1], also for frames with coincident joints.  The code
\* violates this: a knee that coincides with the hip makes the knee angle NaN,
\* and the squat score turns NaN once three frames are in the window.
C5_ScoresInUnitInterval ==
    result.outcome = "returned" =>
        /\ ~IsNaN(result.form_score)
        /\ 0 <= result.form_score
        /\ result.form_score <= SCALE

\* C7: in a fully analysed FormResult the verdict is true exactly when the form
\* score is above 0.7 and there is at most one correction; in a no-pose or
\* visibility-gated result it is false.
C7_Verdict ==
    result.outcome = "returned" =>
        /\ result.branch = "analysed" =>
              (result.is_correct_form
                 <=> (FGt(result.form_score, (7 * SCALE) \div 10)
                        /\ Len(result.corrections) <= 1))
        /\ result.branch \in {"no_pose", "not_visible"} => ~result.is_correct_form

\* a score above 0.7 whose two corrections make the verdict false
C7_Witness ==
    /\ result.outcome = "returned" /\ result.branch = "analysed"
    /\ FGt(result.form_score, (7 * SCALE) \div 10)
    /\ Len(result.corrections) = 2
    /\ ~result.is_correct_form

\* C8, as stated: a fully analysed result whose form score is at least 0.7
\* contains no exercise-specific correction string.
C8_NoCorrectionAboveThreshold ==
    (result.outcome = "returned" /\ result.branch = "analysed"
       /\ FGe(result.form_score, (7 * SCALE) \div 10)) =>
        Range(result.corrections) \subseteq {VisibilityConfirmation}

\* C8, amended: a fully analysed result whose form score is at least 0.7
\* contains none of the strings gated at 0.7; the one exercise-specific
\* correction it can hold is the squat knee-angle cue, which does not depend on
\* the score.
C8_GatedStringsBelowThreshold ==
    (result.outcome = "returned" /\ result.branch = "analysed"
       /\ FGe(result.form_score, (7 * SCALE) \div 10)) =>
        /\ Range(result.corrections) \cap Range(GatedCorrections(result.exercise_type)) = {}
        /\ Range(result.corrections)
             \subseteq {VisibilityConfirmation}
                         \cup (IF result.exercise_type = "squat"
                               THEN {GoDeeper, NotTooDeep} ELSE {})

\* a squat scored above 0.7 that still carries the knee cue
C8_Witness ==
    /\ result.outcome = "returned" /\ result.branch = "analysed"
    /\ result.exercise_type = "squat"
    /\ FGe(result.form_score, (7 * SCALE) \div 10)
    /\ NotTooDeep \in Range(result.corrections)

-----------------------------------------------------------------------------
(* Properties of the history window *)
\* C6: after any sequence of add_frame calls on a TemporalAnalyzer of window
\* size N the three queues have equal length, and that length is at most N.
C6_QueuesEqualBounded ==
    /\ Len(pose_history) = Len(angle_history)
    /\ Len(angle_history) = Len(timestamps)
    /\ Len(timestamps) <= window_size

\* a full window that has evicted frames
C6_Witness ==
    /\ probe.op = "add_frame"
    /\ window_size >= 2
    /\ Len(pose_history) = window_size
    /\ calls >= window_size + 2

-----------------------------------------------------------------------------
(* Properties of the visibility gate *)
\* the landmarks of a region that pass the three checks; an index the frame
\* does not hold passes none
PassingIndices(part) ==
    {idx \in part.indices :
        /\ idx < Len(probe.points)
        /\ LandmarkPasses(probe.points, probe.visibilities, idx)}

\* C9: for any frame, also one of fewer than 33 points, a region is reported
\* missing exactly when fewer than half of its landmark indices pass the three
\* checks, and the frame is fully visible exactly when no region is missing.
\* The code violates this on short frames: it counts only the indices inside
\* the frame, and never reports a region that lies wholly outside it.
C9_MissingIffFewerThanHalf ==
    probe.op = "_check_body_visibility" =>
        /\ \A i \in DOMAIN BodyParts :
              BodyParts[i].name \in Range(probe.returned.missing_parts)
                <=> 2 * Cardinality(PassingIndices(BodyParts[i]))
                      < Cardinality(BodyParts[i].indices)
        /\ probe.returned.is_fully_visible <=> probe.returned.missing_parts = << >>

-----------------------------------------------------------------------------
(* Properties of the smoother *)
\* the measurements fed to a key are one number, repeated
ConstantStream(angle_key) ==
    /\ ~IsNaN(observed[angle_key][1])
    /\ \A i \in DOMAIN observed[angle_key] :
          observed[angle_key][i] = observed[angle_key][1]

\* C10: a key that is fed a constant observation v has the estimate v after
\* every observation, whatever the number of repetitions.
C10_ConstantStreamEstimate ==
    \A angle_key \in DOMAIN filters :
        ConstantStream(angle_key) =>
            filters[angle_key].estimated_value = observed[angle_key][1]

\* five or more identical observations of one key
C10_Witness ==
    \E angle_key \in DOMAIN filters :
        /\ ConstantStream(angle_key)
        /\ Len(observed[angle_key]) >= 5
        /\ filters[angle_key].estimated_value = observed[angle_key][1]
        /\ probe.op = "smooth_angle" /\ probe.angle_key = angle_key
        /\ probe.returned = observed[angle_key][1]

-----------------------------------------------------------------------------
(* The geometry kernel applied to landmark arrays of any length *)
KernelFrames == {StandFrame, SquatFrame, HalfSquatFrame, KneeOnHipFrame, LeanFrame,
                 FeetCutFrame, HeadOnlyFrame, StraightSpineFrame}

GeometryKernel(points) ==
    /\ probe' = [op |-> "geometry_kernel", points |-> points,
                 spine |-> calculate_spine_curvature(points),
                 tracking |-> calculate_knee_tracking_accuracy(points),
                 alignment |-> calculate_body_alignment_score(points),
                 hinge |-> calculate_hip_hinge_angle(points)]
    /\ UNCHANGED <<filters, pose_history, angle_history, timestamps, window_size,
                   last_visibilities, result, observed, calls, twin>>

NextKernel ==
    \E frame \in KernelFrames, n \in 0..33 : GeometryKernel(SubSeq(frame, 1, n))

SpecKernel == Init /\ [][NextKernel]_vars

-----------------------------------------------------------------------------
(* Properties of angle extraction *)
\* the joints of an extracted angle: the vertex is the second
AngleJoints(key) ==
    CASE key = "left_knee_angle" -> <<23, 25, 27>>
      [] key = "right_knee_angle" -> <<24, 26, 28>>
      [] key = "left_elbow_angle" -> <<11, 13, 15>>
      [] key = "right_elbow_angle" -> <<12, 14, 16>>

\* one of the two edge vectors at the vertex has zero length
ZeroEdge(landmarks, key) ==
    \/ P(landmarks, AngleJoints(key)[1]) = P(landmarks, AngleJoints(key)[2])
    \/ P(landmarks, AngleJoints(key)[3]) = P(landmarks, AngleJoints(key)[2])

\* the measurement the last call passed to the filter of a key
LastObserved(key) == observed[key][Len(observed[key])]

\* C11: when an edge vector of a joint angle has zero length, the angle
\* extracted into the angle set is the neutral 180 degrees.  The code violates
\* this: calculate_angles divides by the zero norm product and yields NaN.
C11_ZeroLengthGivesNeutral ==
    (Called /\ result.branch = "analysed") =>
        \A key \in AngleKeys :
            ZeroEdge(probe.image.landmarks, key) => LastObserved(key) = 180 * DEG

-----------------------------------------------------------------------------
-----------------------------------------------------------------------------
(* Effects of a call on the analyzer *)
\* the smoother took one measurement of every key and the window took the frame
SmootherAndWindowUpdated ==
    /\ \A key \in AngleKeys :
          /\ key \in DOMAIN filters'
          /\ filters'[key].estimated_value # None
          /\ Len(observed'[key])
               = (IF key \in DOMAIN observed THEN Len(observed[key]) ELSE 0) + 1
    /\ Len(pose_history') = Len(pose_history) + 1
    /\ pose_history'[Len(pose_history')] = probe'.image.landmarks
    /\ Len(angle_history') = Len(angle_history) + 1
    /\ Len(timestamps') = Len(timestamps) + 1

\* C13, as stated: every call for which the extractor returned a landmark
\* frame updates the smoother's per-key state and adds the frame to the window.
C13_EveryPoseUpdatesState ==
    [][probe'.image.detected => SmootherAndWindowUpdated]_vars

\* C13, amended: every call whose landmark frame passes the visibility gate
\* updates the smoother's per-key state and adds the frame to the window, also
\* when the scorer then raises; a call stopped by the gate updates neither.
C13_VisiblePoseUpdatesState ==
    [][/\ (probe'.image.detected
             /\ _check_body_visibility(probe'.image.landmarks,
                                       probe'.image.visibilities).is_fully_visible)
          => SmootherAndWindowUpdated
       /\ (probe'.image.detected
             /\ ~_check_body_visibility(probe'.image.landmarks,
                                        probe'.image.visibilities).is_fully_visible)
          => UNCHANGED <<filters, observed, pose_history, angle_history, timestamps>>
      ]_vars

\* a second scored frame in the window
C13_Witness ==
    /\ Called /\ probe.image.detected
    /\ result.branch = "analysed"
    /\ Len(pose_history) = 2
    /\ \A key \in AngleKeys : Len(observed[key]) = 2

-----------------------------------------------------------------------------
(* One session of fully visible frames, one clock tick per frame *)
SessionPoses == {Pose(SquatFrame, AllVisible), Pose(StandFrame, AllVisible)}
SessionExercises == {"squat", "lunge"}

SessionCall(image, exercise_type) ==
    /\ calls < MaxFrames
    /\ AnalyzeCall(image, exercise_type, {calls})
    /\ UNCHANGED twin

NextSession ==
    \E image \in SessionPoses, exercise_type \in SessionExercises :
        SessionCall(image, exercise_type)

SpecSession == Init /\ [][NextSession]_vars

-----------------------------------------------------------------------------
(* Properties of a session *)
\* the values of a key over the window
WindowValues(key) == [i \in 1..Len(angle_history) |-> Get(angle_history[i], key, 0)]

\* every frame fed so far had the knee at 90 degrees
AllKneesAt90 ==
    /\ "left_knee_angle" \in DOMAIN observed
    /\ \A i \in DOMAIN observed["left_knee_angle"] :
          observed["left_knee_angle"][i] = 90 * DEG
    /\ \A i \in DOMAIN pose_history : pose_history[i] = SquatFrame

\* C14: after 10 identical fully visible frames with knee angle 90 degrees on
\* a fresh analyzer the consistency score is 1.0: the variance of every angle
\* key over the window is 0.
C14_TenIdenticalFramesConsistent ==
    (calls >= 10 /\ AllKneesAt90) =>
        /\ Len(angle_history) = 10
        /\ \A key \in AngleKeys : Variance(WindowValues(key)) = 0
        /\ calculate_consistency_score(angle_history) = SCALE

\* the tenth identical frame has been analysed
C14_Witness ==
    /\ calls = 10 /\ AllKneesAt90
    /\ Len(angle_history) = 10
    /\ calculate_consistency_score(angle_history) = SCALE

\* the depth sub-score the squat scorer computes in the last call
LastDepthScore ==
    analyze_squat_biomechanics(probe.image.landmarks,
                               angle_history[Len(angle_history)]).depth_score

\* the last call scored a squat on a frame whose knee angle is 90 degrees
SquatAt90 ==
    /\ Called /\ probe.exercise_type = "squat"
    /\ result.outcome = "returned" /\ result.branch = "analysed"
    /\ LastObserved("left_knee_angle") = 90 * DEG

\* C15, as stated: a squat analysis of a fully visible frame whose knee angle
\* is exactly 90 degrees has depth sub-score 1.0.
C15_DepthAt90 == SquatAt90 => LastDepthScore = SCALE

\* C15, amended: the depth sub-score is taken from the smoothed knee angle; it
\* is 1.0 when the frame is the first of the session or every earlier frame
\* had the knee at 90 degrees too, and in general exactly when the smoothed
\* angle lies in the 85-95 degree tier.
C15_DepthOfSmoothedAngle ==
    SquatAt90 =>
        /\ (\A i \in DOMAIN observed["left_knee_angle"] :
               observed["left_knee_angle"][i] = 90 * DEG) => LastDepthScore = SCALE
        /\ LastDepthScore = SCALE
             <=> (FLe(85 * DEG, filters["left_knee_angle"].estimated_value)
                    /\ FLe(filters["left_knee_angle"].estimated_value, 95 * DEG))

\* the first frame of a session, knee at 90 degrees, scored as a squat
C15_Witness ==
    /\ SquatAt90
    /\ calls = 1
    /\ LastDepthScore = SCALE

-----------------------------------------------------------------------------
(* Two analyzers fed the same calls, each reading its own clock *)
PairPoses == {Pose(SquatFrame, AllVisible), Pose(KneeOnHipFrame, AllVisible),
              Pose(LowAnklesFrame, AllVisible), Pose(StandFrame, ArmsHidden), NoPose}
PairExercises == {"squat", "lunge", "pushup"}

\* the readings of the second clock
TwinReadings ==
    {t \in 0..MaxTime :
        twin.timestamps = << >> \/ t >= twin.timestamps[Len(twin.timestamps)]}

PairCall(image, exercise_type) ==
    /\ calls < MaxCalls
    /\ AnalyzeCall(image, exercise_type, {0})
    /\ \E t \in TwinReadings : twin' = AnalyzerAfter(twin, image, exercise_type, t)

NextPair ==
    \E image \in PairPoses, exercise_type \in PairExercises :
        PairCall(image, exercise_type)

SpecPair == Init /\ [][NextPair]_vars

-----------------------------------------------------------------------------
(* Properties of the movement velocity *)
\* the last call asked for velocities
VelocityAsked == probe.op = "calculate_movement_velocity"

\* newest minus oldest timestamp of the window
TimeSpan == timestamps[Len(timestamps)] - timestamps[1]

\* C17, as stated: the velocity of every requested joint is 0 when the window
\* holds fewer than 2 samples and when the time span is not positive.
C17_ZeroForEveryJoint ==
    (VelocityAsked /\ (Len(pose_history) < 2 \/ TimeSpan <= 0)) =>
        \A j \in probe.joint_indices :
            j \in DOMAIN probe.returned /\ probe.returned[j] = 0

\* C17, amended: with fewer than 2 samples the result is the empty mapping;
\* otherwise it has an entry exactly for the requested joints that at least
\* two frames hold, and every entry is 0 when the time span is not positive.
C17_EmptyOrZero ==
    VelocityAsked =>
        /\ Len(pose_history) < 2 => probe.returned = EmptyDict
        /\ Len(pose_history) >= 2 =>
              /\ DOMAIN probe.returned
                   = {j \in probe.joint_indices :
                        Cardinality({i \in DOMAIN pose_history :
                                        j < Len(pose_history[i])}) >= 2}
              /\ TimeSpan <= 0 => \A j \in DOMAIN probe.returned : probe.returned[j] = 0
              /\ \A j \in DOMAIN probe.returned : probe.returned[j] >= 0

\* a knee that moved between two frames whose timestamps run backwards
C17_Witness ==
    /\ VelocityAsked
    /\ Len(pose_history) >= 2
    /\ TimeSpan < 0
    /\ pose_history[1] # pose_history[2]
    /\ 25 \in DOMAIN probe.returned
    /\ probe.returned[25] = 0

-----------------------------------------------------------------------------
(* Properties of the stored angles *)
\* a defined number of degrees in [0, 180]
DefinedAngle(a) == ~IsNaN(a) /\ 0 <= a /\ a <= 180 * DEG

\* C18: every angle held in the smoother's estimates and in every angle set of
\* the window is a defined number of degrees in [0, 180].  The code violates
\* this: the NaN of a frame with coincident joints becomes the estimate of the
\* key and stays the estimate for every later frame.
C18_AnglesDefined ==
    /\ \A key \in DOMAIN filters : DefinedAngle(filters[key].estimated_value)
    /\ \A i \in DOMAIN angle_history :
          \A key \in DOMAIN angle_history[i] : DefinedAngle(angle_history[i][key])

-----------------------------------------------------------------------------
(* Properties of the window order *)
\* what a queue keeps when one entry arrives
Kept(q) == IF Len(q) >= window_size THEN Tail(q) ELSE q

\* C19: the window is FIFO.  Each add_frame puts the frame's landmarks, angles
\* and timestamp at the end of the three queues and, when the window is full,
\* drops exactly the oldest entry of each; after k calls the queues hold the
\* last min(k, N) frames.
C19_Fifo ==
    [][probe'.op = "add_frame" =>
          /\ pose_history' = Append(Kept(pose_history), probe'.landmarks)
          /\ angle_history' = Append(Kept(angle_history), probe'.angles)
          /\ timestamps' = Append(Kept(timestamps), probe'.timestamp)
          /\ Len(pose_history') = (IF calls' < window_size THEN calls' ELSE window_size)
      ]_vars

\* a full window of two or more frames after an eviction, oldest and newest differ
C19_Witness ==
    /\ probe.op = "add_frame"
    /\ window_size >= 2
    /\ calls > window_size
    /\ Len(timestamps) = window_size
    /\ timestamps[1] # timestamps[Len(timestamps)]
    /\ pose_history[Len(pose_history)] = probe.landmarks
    /\ angle_history[1] # angle_history[Len(angle_history)]

-----------------------------------------------------------------------------
(* Properties of the order of the steps *)
\* the newest angle set of the window
NewestAngles == angle_history[Len(angle_history)]

\* C20: in a fully analysed call the window's newest angle set is the smoothed
\* angle set of the current frame, the scorer gets those smoothed angles, and
\* the score is computed on the window that already holds the current frame.
C20_SmoothedThenWindowThenScore ==
    (Called /\ result.branch = "analysed") =>
        /\ pose_history[Len(pose_history)] = probe.image.landmarks
        /\ \A key \in AngleKeys : NewestAngles[key] = filters[key].estimated_value
        /\ result.outcome = "returned" =>
              result.form_score
                = _calculate_form_score(probe.image.landmarks, probe.exercise_type,
                                        NewestAngles, angle_history)

\* a third squat frame: smoothed and raw knee angle differ, and the window
\* without the frame would have given another score
C20_Witness ==
    /\ Called /\ result.branch = "analysed" /\ result.outcome = "returned"
    /\ probe.exercise_type = "squat"
    /\ Len(angle_history) = 3
    /\ ~IsNaN(result.form_score)
    /\ NewestAngles["left_knee_angle"] # LastObserved("left_knee_angle")
    /\ result.form_score
         # _calculate_form_score(probe.image.landmarks, "squat", NewestAngles,
                                 SubSeq(angle_history, 1, 2))

-----------------------------------------------------------------------------
(* Properties of the Kalman filter *)
\* the key has been observed more than once
ObservedTwice(key) == key \in DOMAIN observed /\ Len(observed[key]) >= 2

\* a lower and an upper bound of the observations of a key
BoundsObservations(key, lo, hi) ==
    \A i \in DOMAIN observed[key] : FLe(lo, observed[key][i]) /\ FLe(observed[key][i], hi)

\* C21: for every key and every observation after the first the blending gain
\* is strictly between 0 and 1, the estimate lies between the least and the
\* greatest observation of the key, and the error estimate is strictly positive
\* and at most its initial value.  The code violates this: an undefined (NaN)
\* observation, which calculate_angles produces, makes the estimate NaN.
C21_GainEstimateErrorBounded ==
    \A key \in DOMAIN filters :
        ObservedTwice(key) =>
            /\ 0 < KalmanGain(filters[key]) /\ KalmanGain(filters[key]) < SCALE
            /\ 0 < filters[key].estimation_error
            /\ filters[key].estimation_error <= KalmanFilter.estimation_error
            /\ \E lo \in Range(observed[key]), hi \in Range(observed[key]) :
                  /\ BoundsObservations(key, lo, hi)
                  /\ FLe(lo, filters[key].estimated_value)
                  /\ FLe(filters[key].estimated_value, hi)

-----------------------------------------------------------------------------
(* Properties of the exercise scores *)
\* the last call returned the score of a fully visible frame for the exercise
Scored(exercise_type) ==
    /\ Called /\ probe.exercise_type = exercise_type
    /\ result.outcome = "returned" /\ result.branch = "analysed"

\* the tier of a knee angle: 1.0 in [85,95], 0.8 in [75,105], 0.6 in [65,115],
\* 0.3 otherwise
KneeTier(angle) ==
    IF FLe(85 * DEG, angle) /\ FLe(angle, 95 * DEG) THEN SCALE
    ELSE IF FLe(75 * DEG, angle) /\ FLe(angle, 105 * DEG) THEN (8 * SCALE) \div 10
    ELSE IF FLe(65 * DEG, angle) /\ FLe(angle, 115 * DEG) THEN (6 * SCALE) \div 10
    ELSE (3 * SCALE) \div 10

\* the form score that an exercise score gives for the frame of the last call
FormScoreOf(exercise_score) ==
    PyMin(FScale(FAdd(_calculate_visibility_score(probe.image.landmarks) * 2,
                      FScale(exercise_score, 8, 1)), 1, 10), SCALE)

\* min(1, 0.9 * (0.4 * depth + 0.3 * back + 0.3 * knee) + 0.1 * consistency)
SquatFormula(depth, back, knee, consistency) ==
    PyMin(FScale(FAdd(((4 * depth + 3 * back + 3 * knee) \div 10) * 9, consistency),
                 1, 10), SCALE)

\* C22: for a fully visible frame the squat exercise score is
\* min(1, 0.9 * (0.4*depth + 0.3*backStraightness + 0.3*kneeTracking)
\* + 0.1*consistency), depth being the tier of the smoothed left knee angle
\* (0.3 when the key is absent); the form score is built on that score.
C22_SquatScoreFormula ==
    Scored("squat") =>
        result.form_score
          = FormScoreOf(SquatFormula(
                IF "left_knee_angle" \in DOMAIN NewestAngles
                THEN KneeTier(filters["left_knee_angle"].estimated_value)
                ELSE (3 * SCALE) \div 10,
                SCALE - calculate_spine_curvature(probe.image.landmarks).curvature,
                calculate_knee_tracking_accuracy(probe.image.landmarks).overall,
                calculate_consistency_score(angle_history)))

\* a squat scored on a window of three or more unequal frames, the smoothed
\* knee angle in the 0.8 tier
C22_Witness ==
    /\ Scored("squat")
    /\ Len(angle_history) >= 3
    /\ calculate_consistency_score(angle_history) < SCALE
    /\ KneeTier(filters["left_knee_angle"].estimated_value) = (8 * SCALE) \div 10
    /\ result.form_score > 0

-----------------------------------------------------------------------------
(* The lunge scorer applied to frames of many knee positions *)
\* how far in front of the hip-ankle line a knee sits, in hundredths
KneeOffsets == {0, 5, 8, 10, 12, 14, 15, 20, 30}

\* standing frames with the knees pushed forward, and one with the left knee
\* on the left hip
LungeFrames ==
    { Body([StandJoints EXCEPT !.l_knee = <<45, 65, -z>>, !.r_knee = <<55, 65, -w>>,
                               !.nose = <<50, 10, lean>>]) :
        z \in KneeOffsets, w \in KneeOffsets, lean \in {0, 5} }
      \cup {KneeOnHipFrame}

ScoreLunge(points) ==
    /\ probe' = [op |-> "_score_lunge_form", points |-> points,
                 returned |-> _score_lunge_form(points, calculate_angles(points))]
    /\ UNCHANGED <<filters, pose_history, angle_history, timestamps, window_size,
                   last_visibilities, result, observed, calls, twin>>

NextScorer == \E points \in LungeFrames : ScoreLunge(points)

SpecScorer == Init /\ [][NextScorer]_vars

-----------------------------------------------------------------------------
(* Properties of the lunge score *)
\* the angle at the knee of the frame, 90 degrees when an edge has zero length
KneeAngleOf(points, key) ==
    IF ZeroEdge(points, key) THEN 90 * DEG ELSE calculate_angles(points)[key]

\* the back-knee tier: 1.0 at 80-100, 0.7 at 70-110, 0.4 otherwise, 0.7 when
\* the angle cannot be taken
BackKneeTier(points) ==
    IF ZeroEdge(points, "right_knee_angle") THEN (7 * SCALE) \div 10
    ELSE IF FLe(80 * DEG, KneeAngleOf(points, "right_knee_angle"))
              /\ FLe(KneeAngleOf(points, "right_knee_angle"), 100 * DEG) THEN SCALE
    ELSE IF FLe(70 * DEG, KneeAngleOf(points, "right_knee_angle"))
              /\ FLe(KneeAngleOf(points, "right_knee_angle"), 110 * DEG)
    THEN (7 * SCALE) \div 10
    ELSE (4 * SCALE) \div 10

\* the front-knee tier of the lunge: 1.0 at 85-95, 0.75 at 75-105, 0.5 at
\* 65-115, 0.25 at 55-125, 0 otherwise
LungeFrontTier(angle) ==
    IF FLe(85 * DEG, angle) /\ FLe(angle, 95 * DEG) THEN SCALE
    ELSE IF FLe(75 * DEG, angle) /\ FLe(angle, 105 * DEG) THEN (75 * SCALE) \div 100
    ELSE IF FLe(65 * DEG, angle) /\ FLe(angle, 115 * DEG) THEN (50 * SCALE) \div 100
    ELSE IF FLe(55 * DEG, angle) /\ FLe(angle, 125 * DEG) THEN (25 * SCALE) \div 100
    ELSE 0

\* 40% front-knee tier + 30% back-knee tier + 30% torso uprightness
LungeWeighted(front_tier, points) ==
    (4 * front_tier) \div 10 + (3 * BackKneeTier(points)) \div 10
      + (3 * (SCALE - calculate_spine_curvature(points).curvature)) \div 10

LungeScored == probe.op = "_score_lunge_form"

\* C23, as stated: the lunge score is 40% front-knee tier, 30% back-knee tier
\* and 30% torso uprightness, the front-knee tier having the bands and values
\* of the squat depth sub-score (1.0, 0.8, 0.6, 0.3).
C23_LungeUsesSquatTiers ==
    LungeScored =>
        probe.returned
          = LungeWeighted(KneeTier(KneeAngleOf(probe.points, "left_knee_angle")),
                          probe.points)

\* C23, amended: the weights are 40/30/30, and the front-knee tier shares the
\* bands 85-95, 75-105, 65-115 with the squat depth sub-score but has the
\* values 1.0, 0.75, 0.5, then 0.25 at 55-125 and 0 otherwise.
C23_LungeTiers ==
    LungeScored =>
        probe.returned
          = LungeWeighted(LungeFrontTier(KneeAngleOf(probe.points, "left_knee_angle")),
                          probe.points)

\* a lunge whose front knee is in the 75-105 band and whose back knee is not
\* in its best band
C23_Witness ==
    /\ LungeScored
    /\ LungeFrontTier(KneeAngleOf(probe.points, "left_knee_angle"))
         = (75 * SCALE) \div 100
    /\ BackKneeTier(probe.points) < SCALE
    /\ probe.returned > (3 * SCALE) \div 10

-----------------------------------------------------------------------------
(* Properties of the consistency score *)
\* the angle keys seen in the window
WindowKeys == UNION {DOMAIN angle_history[i] : i \in DOMAIN angle_history}

\* every key seen in the window has one value in all its frames
WindowConstant ==
    \A key \in WindowKeys :
        \A i \in DOMAIN angle_history : WindowValues(key)[i] = WindowValues(key)[1]

\* C24: the consistency score is exactly 0.5 while the window holds fewer
\* than 3 frames; with 3 or more frames it is the mean over the keys of
\* 1 / (1 + 10 * variance / 180^2), a number in (0, 1] that is 1 exactly when
\* every key is constant over the window.  The code violates this: a NaN
\* angle in the window makes the variance, and with it the score, NaN.
C24_ConsistencyInUnitInterval ==
    /\ Len(angle_history) < 3 => calculate_consistency_score(angle_history) = SCALE \div 2
    /\ (Len(angle_history) >= 3 /\ WindowKeys # {}) =>
          /\ calculate_consistency_score(angle_history)
               = Mean([j \in 1..Len(SetToSeq(WindowKeys)) |->
                         KeyConsistency(WindowValues(SetToSeq(WindowKeys)[j]))])
          /\ FLt(0, calculate_consistency_score(angle_history))
          /\ FLe(calculate_consistency_score(angle_history), SCALE)
          /\ calculate_consistency_score(angle_history) = SCALE <=> WindowConstant

-----------------------------------------------------------------------------
(* Properties of the spine curvature *)
\* the side view (y, z) of the five spine landmarks
SpineSideView(points) ==
    [i \in 1..Len(SpineIndices) |-> <<P(points, SpineIndices[i])[2],
                                      P(points, SpineIndices[i])[3]>>]

\* two segments of non-zero length that point in the same direction
SameDirection(v1, v2) ==
    /\ v1[1] * v2[2] - v1[2] * v2[1] = 0
    /\ Dot(v1, v2) > 0

\* the spine landmarks lie in order on one straight line
SpineStraight(points) ==
    \A i \in 1..(Len(SpineIndices) - 2) :
        SameDirection(Sub2(SpineSideView(points)[i + 1], SpineSideView(points)[i]),
                      Sub2(SpineSideView(points)[i + 2], SpineSideView(points)[i + 1]))

\* C25: for a 33-point frame whose five spine landmarks lie in order on one
\* straight line, every segment pointing the same way, the spine curvature is
\* 0 with is_straight true, so the back-straightness sub-score is 1.0.  The
\* code violates this: it averages the angles between successive segment
\* directions, which are 0 on a straight spine, and reports |180 - 0| / 180.
C25_StraightSpineZeroCurvature ==
    (probe.op = "geometry_kernel" /\ Len(probe.points) = 33
       /\ SpineStraight(probe.points)) =>
        /\ probe.spine.curvature = 0
        /\ probe.spine.is_straight
        /\ analyze_squat_biomechanics(probe.points, EmptyDict).back_straightness = SCALE

-----------------------------------------------------------------------------
(* Properties of the verdict *)
\* C26: a fully analysed result whose verdict is true holds no corrective
\* instruction: its corrections are empty or only the visibility confirmation.
\* The code violates this: the verdict counts the corrections, and a frame
\* whose visibility score is at most 0.8 gets no confirmation, so one squat
\* knee cue passes the count.
C26_CorrectFormHasNoCorrection ==
    (result.outcome = "returned" /\ result.branch = "analysed"
       /\ result.is_correct_form) =>
        Range(result.corrections) \subseteq {VisibilityConfirmation}

-----------------------------------------------------------------------------
(* Properties of the calls that change the session state *)
\* the call of this step returned the result of a fully analysed frame
FullyAnalysedStep == result'.outcome = "returned" /\ result'.branch = "analysed"

\* C27: a call that ends in the no-pose or in the incomplete-visibility branch
\* leaves the smoother's filters and the three queues of the window unchanged,
\* so the window length is min(N, number of fully analysed calls): the window
\* takes one frame per fully analysed call and none otherwise.  The code
\* violates the count: a call whose scorer raises has already put its frame
\* into the window.
C27_WindowCountsAnalysedCalls ==
    [][/\ result'.branch \in {"no_pose", "not_visible"}
            => UNCHANGED <<filters, pose_history, angle_history, timestamps>>
       /\ Len(pose_history') = (IF FullyAnalysedStep /\ Len(pose_history) < window_size
                                THEN Len(pose_history) + 1 ELSE Len(pose_history))
      ]_vars

\* C28: a call that fails while scoring leaves the session state as it was
\* before the call: no filter updated, no frame appended.  The code violates
\* this: smoothing and the window update come before the scorer that raises.
C28_FailedCallLeavesState ==
    [][result'.outcome = "raised"
          => UNCHANGED <<filters, pose_history, angle_history, timestamps>>]_vars

-----------------------------------------------------------------------------
(* The API (backend/api/main.py): every request is served by the one         *)
(* module-level PostureAnalyzer                                              *)
valid_exercises == {"squat", "pushup", "plank", "lunge", "deadlift"}

\* the clients of the API; the variable twin is a context that takes the
\* requests of client "a" alone
ApiClients == {"a", "b"}
ApiExercises == {"squat", "pushup", "yoga"}
ApiImages == {Pose(SquatFrame, AllVisible), Pose(StandFrame, AllVisible), NoPose}
\* the frames of an upload that the handler analyses (every frame_interval-th)
ApiVideos == { << >>, <<Pose(StandFrame, AllVisible), Pose(SquatFrame, AllVisible)>>,
               <<Pose(SquatFrame, AllVisible), NoPose>> }

\* the module-level instance as a value
SharedAnalyzer ==
    [ filters |-> filters, pose_history |-> pose_history,
      angle_history |-> angle_history, timestamps |-> timestamps, result |-> result ]

\* the measurements a call on the image feeds to the filters
ObservedAfter(obs, image) ==
    IF image.detected
         /\ _check_body_visibility(image.landmarks, image.visibilities).is_fully_visible
    THEN Observe(obs, calculate_angles(image.landmarks))
    ELSE obs

RECURSIVE FramesAfter(_, _, _, _)
\* the handler's calls of analyze_exercise_form, frame by frame, up to the end
\* of the frames or to the call that raises
FramesAfter(served, frames, exercise_type, t) ==
    IF frames = << >> \/ served.analyzer.result.outcome = "raised" THEN served
    ELSE Bind([ analyzer |-> AnalyzerAfter(served.analyzer, Head(frames),
                                            exercise_type, t),
                observed |-> ObservedAfter(served.observed, Head(frames)),
                last_visibilities |-> Head(frames).visibilities,
                engine_calls |-> served.engine_calls + 1 ],
              LAMBDA next : FramesAfter(next, Tail(frames), exercise_type, t))

\* a request: the exercise type is validated inside the handler's try block,
\* then the frames are analysed; an HTTPException(400) raised inside the try
\* block and an exception of the engine both reach "except Exception" and are
\* answered with status 500
Served(analyzer, obs, frames, exercise_type, t) ==
    IF exercise_type \notin valid_exercises
    THEN [ analyzer |-> analyzer, observed |-> obs,
           last_visibilities |-> last_visibilities, engine_calls |-> 0,
           status_code |-> 500 ]
    ELSE Bind(FramesAfter([ analyzer |-> [analyzer EXCEPT !.result = NoResult],
                            observed |-> obs,
                            last_visibilities |-> last_visibilities,
                            engine_calls |-> 0 ],
                          frames, exercise_type, t),
              LAMBDA served :
                [ analyzer |-> served.analyzer, observed |-> served.observed,
                  last_visibilities |-> served.last_visibilities,
                  engine_calls |-> served.engine_calls,
                  status_code |-> IF served.analyzer.result.outcome = "raised"
                                  THEN 500 ELSE 200 ])

ApiRequest(endpoint, client, frames, exercise_type) ==
    /\ calls < MaxCalls
    /\ \E served \in {Served(SharedAnalyzer, observed, frames, exercise_type, calls)} :
          /\ filters' = served.analyzer.filters
          /\ pose_history' = served.analyzer.pose_history
          /\ angle_history' = served.analyzer.angle_history
          /\ timestamps' = served.analyzer.timestamps
          /\ result' = served.analyzer.result
          /\ observed' = served.observed
          /\ last_visibilities' = served.last_visibilities
          /\ probe' = [ op |-> endpoint, client |-> client, frames |-> frames,
                        exercise_type |-> exercise_type,
                        status_code |-> served.status_code,
                        engine_calls |-> served.engine_calls ]
    /\ twin' = IF client = "a"
               THEN Served(twin, EmptyDict, frames, exercise_type, calls).analyzer
               ELSE twin
    /\ calls' = calls + 1
    /\ UNCHANGED window_size

\* POST /analyze-posture: one image, one call of the engine
analyze_posture(client, image, exercise_type) ==
    ApiRequest("/analyze-posture", client, <<image>>, exercise_type)

\* POST /analyze-video: one call of the engine per sampled frame
analyze_video(client, frames, exercise_type) ==
    ApiRequest("/analyze-video", client, frames, exercise_type)

NextApi ==
    \/ \E client \in ApiClients, image \in ApiImages, exercise_type \in ApiExercises :
           analyze_posture(client, image, exercise_type)
    \/ \E client \in ApiClients, frames \in ApiVideos, exercise_type \in ApiExercises :
           analyze_video(client, frames, exercise_type)

SpecApi == Init /\ [][NextApi]_vars

-----------------------------------------------------------------------------
(* Properties of the API *)
\* the last step served a request
Requested == probe.op \in {"/analyze-posture", "/analyze-video"}

\* C29: smoothing and window state are one context per session: the result of
\* a request depends only on the frames submitted before in the same session
\* and not on the requests of other clients.  The code violates this: all
\* requests go through the one module-level PostureAnalyzer.
C29_SessionIsolation ==
    (Requested /\ probe.client = "a" /\ probe.status_code = 200) =>
        result = twin.result

\* C30: a request whose exercise type is not one of squat, pushup, plank,
\* lunge, deadlift is rejected with status 400, and the engine is not called
\* for it.  The code violates the status: the handler's "except Exception"
\* catches its own HTTPException(400) and answers 500.
C30_InvalidTypeRejected400 ==
    (Requested /\ probe.exercise_type \notin valid_exercises) =>
        /\ probe.status_code = 400
        /\ probe.engine_calls = 0

====
